---------------------------- MODULE Spec2Model ----------------------------
(***************************************************************************)
(* Model of lab4 of DeDUnitY/Big-Data: the two PageRank strategies         *)
(* (pagerank_mapreduce.py, pagerank_pregel.py), the inverted-index builder *)
(* and the two retrieval strategies (search_engine.py) over the SQLite     *)
(* store (storage.py).                                                     *)
(*                                                                         *)
(* Python floats are modelled as exact rationals <<n, d>> in lowest terms  *)
(* with d > 0, so "equal" below means equal in exact arithmetic.           *)
(***************************************************************************)
EXTENDS Integers, Sequences, FiniteSets, TLC

VARIABLES
    documents,   \* table documents: sequence of rows [id, content], in rowid order
    links,       \* table links: sequence of rows <<from_id, to_id>>
    iterations,  \* argument of both pagerank functions
    damping,     \* argument of both pagerank functions
    mr,          \* frame of the running pagerank_mapreduce call
    pg,          \* frame of the running pagerank_pregel call
    db,          \* tables terms and postings as the builder's connection sees them
    committed,   \* tables terms and postings as every other connection sees them
    bld,         \* frame of the running build_inverted_index call
    hist,        \* what the last completed build read and wrote (history)
    query_terms, \* argument of both search functions
    pagerank,    \* argument of both search functions
    alpha,       \* argument of both search functions
    sd,          \* frame of the running search_by_documents call
    st           \* frame of the running search_by_terms call

vars == <<documents, links, iterations, damping, mr, pg, db, committed, bld, hist,
          query_terms, pagerank, alpha, sd, st>>

rankArgs   == <<links, iterations, damping>>
indexVars  == <<db, committed, bld, hist>>
searchVars == <<query_terms, pagerank, alpha, sd, st>>

(***************************************************************************)
(* Bounds of the model.                                                    *)
(***************************************************************************)
MaxDocs  == 3    \* document ids are 1..MaxDocs
MaxLinks == 2    \* rows in table links
MaxIter  == 2    \* largest iteration count tried
MaxCorpus   == 2 \* documents in the corpus of an index
MaxQueryLen == 2 \* terms in a query
MaxBuilds   == 2 \* calls of build_inverted_index in one behaviour
MaxMultiDocs  == 2 \* documents of the graphs with parallel links
MaxMultiLinks == 3 \* rows in table links of the graphs with parallel links

Ids == 1..MaxDocs

(***************************************************************************)
(* Exact rational arithmetic standing for Python's float arithmetic.       *)
(***************************************************************************)
Abs(a) == IF a < 0 THEN -a ELSE a

RECURSIVE Gcd(_, _)
Gcd(a, b) == IF b = 0 THEN a ELSE Gcd(b, a % b)

Rat(n, d) ==
    LET g == Gcd(Abs(n), Abs(d))
        s == IF d < 0 THEN -1 ELSE 1
    IN  <<s * (n \div g), s * (d \div g)>>

Zero == <<0, 1>>
One  == <<1, 1>>
FromInt(k) == <<k, 1>>

RAdd(x, y) ==
    LET g == Gcd(x[2], y[2])
    IN  Rat(x[1] * (y[2] \div g) + y[1] * (x[2] \div g), (x[2] \div g) * y[2])

RNeg(x) == <<-x[1], x[2]>>
RSub(x, y) == RAdd(x, RNeg(y))

RMul(x, y) ==
    LET g1 == Gcd(Abs(x[1]), y[2])
        g2 == Gcd(Abs(y[1]), x[2])
    IN  <<(x[1] \div g1) * (y[1] \div g2), (x[2] \div g2) * (y[2] \div g1)>>

\* x / k for an integer k > 0
RDiv(x, k) == RMul(x, <<1, k>>)

RLess(x, y) == x[1] * y[2] < y[1] * x[2]

RECURSIVE RSum(_)
RSum(s) == IF s = <<>> THEN Zero ELSE RAdd(Head(s), RSum(Tail(s)))

(***************************************************************************)
(* Inputs tried.                                                           *)
(***************************************************************************)
\* 0.85 is the default of both functions, 1 leaves no teleport term
Dampings == {<<17, 20>>, One}

RECURSIVE SeqsUpTo(_, _)
SeqsUpTo(S, n) ==
    IF n = 0 THEN {<<>>}
    ELSE LET shorter == SeqsUpTo(S, n - 1)
         IN  shorter \cup {Append(s, x) : s \in {t \in shorter : Len(t) = n - 1}, x \in S}

NoText == <<>>

\* contents tried: "", "ab", "a B", "A-a", "b b a"
Texts == {NoText, <<"a", "b">>, <<"a", " ", "B">>, <<"A", "-", "a">>,
          <<"b", " ", "b", " ", "a">>}

\* query terms tried: "a", "B", "ab" and "c", which no text holds
QueryWords == {<<"a">>, <<"B">>, <<"a", "b">>, <<"c">>}

\* pagerank arguments: None, {}, a vector over documents 1 and 2, a vector
\* without document 1
NoPagerank      == [none |-> TRUE, dict |-> <<>>]
EmptyPagerank   == [none |-> FALSE, dict |-> <<>>]
FullPagerank    == [none |-> FALSE, dict |-> (1 :> <<1, 4>>) @@ (2 :> <<3, 4>>)]
PartialPagerank == [none |-> FALSE, dict |-> (2 :> <<1, 1>>)]

\* (pagerank, alpha) pairs tried; 0.1 is the default alpha
AuthorityArgs == {<<NoPagerank, <<1, 10>>>>, <<EmptyPagerank, <<2, 1>>>>,
                  <<FullPagerank, <<0, 1>>>>, <<FullPagerank, <<2, 1>>>>,
                  <<PartialPagerank, <<1, 10>>>>}

\* documents 1..n, in rowid order
DocRows(n) == [i \in 1..n |-> [id |-> i, content |-> NoText]]

(***************************************************************************)
(* build_graph: the same code in both modules.                             *)
(***************************************************************************)
\* OutLinks that keeps a destination once however often the link is stored
RECURSIVE OutLinksDistinct(_, _)
OutLinksDistinct(ls, n) ==
    IF ls = <<>> THEN <<>>
    ELSE IF Head(ls)[1] = n
         THEN <<Head(ls)[2]>> \o
              OutLinksDistinct(SelectSeq(Tail(ls), LAMBDA l : l # Head(ls)), n)
         ELSE OutLinksDistinct(Tail(ls), n)

\* outgoing[n] after "for from_id, to_id in links": the to_id of every row of n
RECURSIVE OutLinks(_, _)
OutLinks(ls, n) ==
    IF ls = <<>> THEN <<>>
    ELSE IF Head(ls)[1] = n THEN <<Head(ls)[2]>> \o OutLinks(Tail(ls), n)
         ELSE OutLinks(Tail(ls), n)

build_graph ==
    LET nodes == [i \in 1..Len(documents) |-> documents[i].id]
        ids   == {nodes[i] : i \in 1..Len(nodes)}
    IN  [nodes |-> nodes, outgoing |-> [n \in ids |-> OutLinks(links, n)]]


(***************************************************************************)
(* pagerank_mapreduce.py                                                   *)
(***************************************************************************)
\* for nb in ...: contributions[nb] += share
RECURSIVE AddShare(_, _, _)
AddShare(contributions, targets, share) ==
    IF targets = <<>> THEN contributions
    ELSE AddShare([contributions EXCEPT ![Head(targets)] = RAdd(@, share)],
                  Tail(targets), share)

\* MapNode without the dangling branch of map_phase
MapNodeNoDangling(contributions, ranks, node, nodes, outgoing, N) ==
    LET rank      == ranks[node]
        neighbors == outgoing[node]
    IN  IF neighbors # <<>>
        THEN AddShare(contributions, neighbors, RDiv(rank, Len(neighbors)))
        ELSE contributions

\* the body of "for node in nodes" of map_phase, for one node
MapNode(contributions, ranks, node, nodes, outgoing, N) ==
    LET rank      == ranks[node]
        neighbors == outgoing[node]
    IN  IF neighbors # <<>>
        THEN AddShare(contributions, neighbors, RDiv(rank, Len(neighbors)))
        ELSE AddShare(contributions, nodes, RDiv(rank, N))

RECURSIVE MapLoop(_, _, _, _, _, _)
MapLoop(contributions, ranks, todo, nodes, outgoing, N) ==
    IF todo = <<>> THEN contributions
    ELSE MapLoop(MapNode(contributions, ranks, Head(todo), nodes, outgoing, N),
                 ranks, Tail(todo), nodes, outgoing, N)

\* contributions is a defaultdict(float): every id reads as 0.0 until added to
map_phase(ranks, nodes, outgoing, N) ==
    MapLoop([i \in Ids |-> Zero], ranks, nodes, nodes, outgoing, N)

\* reduce_phase with the teleport term (1.0 - damping) not divided by N
reduce_phase_undivided(contributions, nodes, N, d) ==
    [n \in {nodes[i] : i \in 1..Len(nodes)} |->
        RAdd(RSub(One, d), RMul(d, contributions[n]))]

reduce_phase(contributions, nodes, N, d) ==
    [n \in {nodes[i] : i \in 1..Len(nodes)} |->
        RAdd(RDiv(RSub(One, d), N), RMul(d, contributions[n]))]

MRIdle == [pc |-> "call", nodes |-> <<>>, outgoing |-> <<>>, N |-> 0,
           ranks |-> <<>>, contributions |-> <<>>, rounds |-> 0, result |-> <<>>]

\* pagerank_mapreduce up to the loop: build_graph, the empty-graph return, 1/N
MRStart ==
    /\ mr.pc = "call"
    /\ LET g == build_graph
       IN  IF g.nodes = <<>>
           THEN mr' = [mr EXCEPT !.pc = "done", !.result = <<>>]
           ELSE LET N     == Len(g.nodes)
                    ranks == [n \in DOMAIN g.outgoing |-> RDiv(One, N)]
                IN  mr' = [mr EXCEPT !.pc = IF iterations > 0 THEN "map" ELSE "done",
                                     !.nodes = g.nodes, !.outgoing = g.outgoing,
                                     !.N = N, !.ranks = ranks,
                                     !.result = IF iterations > 0 THEN <<>> ELSE ranks]
    /\ UNCHANGED <<documents, rankArgs, pg, indexVars, searchVars>>

MRMap ==
    /\ mr.pc = "map"
    /\ mr' = [mr EXCEPT !.pc = "reduce",
                        !.contributions = map_phase(mr.ranks, mr.nodes, mr.outgoing, mr.N)]
    /\ UNCHANGED <<documents, rankArgs, pg, indexVars, searchVars>>

\* MRReduce with an early exit once a round leaves the ranks as they were
MRReduceUntilFixed ==
    /\ mr.pc = "reduce"
    /\ LET ranks == reduce_phase(mr.contributions, mr.nodes, mr.N, damping)
           last  == mr.rounds + 1 >= iterations \/ ranks = mr.ranks
       IN  mr' = [mr EXCEPT !.pc = IF last THEN "done" ELSE "map",
                            !.ranks = ranks, !.rounds = @ + 1,
                            !.result = IF last THEN ranks ELSE <<>>]
    /\ UNCHANGED <<documents, rankArgs, pg, indexVars, searchVars>>

\* one pass of "for _ in range(iterations)": reduce_phase, then the loop test
MRReduce ==
    /\ mr.pc = "reduce"
    /\ LET ranks == reduce_phase(mr.contributions, mr.nodes, mr.N, damping)
           last  == mr.rounds + 1 >= iterations
       IN  mr' = [mr EXCEPT !.pc = IF last THEN "done" ELSE "map",
                            !.ranks = ranks, !.rounds = @ + 1,
                            !.result = IF last THEN ranks ELSE <<>>]
    /\ UNCHANGED <<documents, rankArgs, pg, indexVars, searchVars>>

(***************************************************************************)
(* pagerank_pregel.py                                                      *)
(***************************************************************************)
\* sum(messages): a left fold from 0
RECURSIVE SumFrom(_, _)
SumFrom(acc, s) == IF s = <<>> THEN acc ELSE SumFrom(RAdd(acc, Head(s)), Tail(s))

Vertex(vid, out_links, num_vertices) ==
    [id |-> vid, out_links |-> out_links, rank |-> RDiv(One, num_vertices)]

\* calculate with the damping left off the incoming sum
calculate_undamped(v, messages, num_vertices, d) ==
    [v EXCEPT !.rank = RAdd(RDiv(RSub(One, d), num_vertices), SumFrom(Zero, messages))]

calculate(v, messages, num_vertices, d) ==
    [v EXCEPT !.rank = RAdd(RDiv(RSub(One, d), num_vertices),
                            RMul(d, SumFrom(Zero, messages)))]

send_messages(v) ==
    IF v.out_links = <<>> THEN <<>>
    ELSE LET share == RDiv(v.rank, Len(v.out_links))
         IN  [i \in 1..Len(v.out_links) |-> <<v.out_links[i], share>>]

\* for dst, value in v.send_messages(): messages[dst].append(value)
RECURSIVE Deliver(_, _)
Deliver(messages, out) ==
    IF out = <<>> THEN messages
    ELSE Deliver([messages EXCEPT ![Head(out)[1]] = Append(@, Head(out)[2])], Tail(out))

\* the send phase: messages is a defaultdict(list)
RECURSIVE SendLoop(_, _, _)
SendLoop(messages, vertices, todo) ==
    IF todo = <<>> THEN messages
    ELSE SendLoop(Deliver(messages, send_messages(vertices[Head(todo)])),
                  vertices, Tail(todo))

\* sum(v.rank for v in vertices.values() if not v.out_links)
RECURSIVE DanglingRank(_, _, _)
DanglingRank(acc, vertices, todo) ==
    IF todo = <<>> THEN acc
    ELSE DanglingRank(IF vertices[Head(todo)].out_links = <<>>
                      THEN RAdd(acc, vertices[Head(todo)].rank) ELSE acc,
                      vertices, Tail(todo))

PGIdle == [pc |-> "call", nodes |-> <<>>, num_vertices |-> 0, vertices |-> <<>>,
           messages |-> <<>>, dangling_share |-> Zero, k |-> 0, rounds |-> 0,
           result |-> <<>>]

Ranks(vertices) == [n \in DOMAIN vertices |-> vertices[n].rank]

\* PGStart without "if not nodes: return {}"
PGStartNoEmptyReturn ==
    /\ mr.pc = "done"
    /\ pg.pc = "call"
    /\ LET g        == build_graph
           n        == Len(g.nodes)
           vertices == [v \in DOMAIN g.outgoing |-> Vertex(v, g.outgoing[v], n)]
       IN  pg' = [pg EXCEPT !.pc = IF iterations > 0 THEN "send" ELSE "done",
                            !.nodes = g.nodes, !.num_vertices = n,
                            !.vertices = vertices,
                            !.result = IF iterations > 0 THEN <<>> ELSE Ranks(vertices)]
    /\ UNCHANGED <<documents, rankArgs, mr, indexVars, searchVars>>

\* pagerank_pregel up to the loop; main() calls it after pagerank_mapreduce
PGStart ==
    /\ mr.pc = "done"
    /\ pg.pc = "call"
    /\ LET g == build_graph
       IN  IF g.nodes = <<>>
           THEN pg' = [pg EXCEPT !.pc = "done", !.result = <<>>]
           ELSE LET n        == Len(g.nodes)
                    vertices == [v \in DOMAIN g.outgoing |-> Vertex(v, g.outgoing[v], n)]
                IN  pg' = [pg EXCEPT !.pc = IF iterations > 0 THEN "send" ELSE "done",
                                     !.nodes = g.nodes, !.num_vertices = n,
                                     !.vertices = vertices,
                                     !.result = IF iterations > 0 THEN <<>>
                                                ELSE Ranks(vertices)]
    /\ UNCHANGED <<documents, rankArgs, mr, indexVars, searchVars>>

\* one superstep up to the compute loop: the messages and the dangling share
PGSend ==
    /\ pg.pc = "send"
    /\ LET messages      == SendLoop([i \in Ids |-> <<>>], pg.vertices, pg.nodes)
           dangling_rank == DanglingRank(Zero, pg.vertices, pg.nodes)
       IN  pg' = [pg EXCEPT !.pc = "compute", !.messages = messages,
                            !.dangling_share =
                                RDiv(RMul(damping, dangling_rank), pg.num_vertices),
                            !.k = 1]
    /\ UNCHANGED <<documents, rankArgs, mr, indexVars, searchVars>>

\* PGCompute on messages sent from the ranks as they stand now, the ranks
\* of this superstep's earlier vertices included
PGComputeNoBarrier ==
    /\ pg.pc = "compute"
    /\ LET vid     == pg.nodes[pg.k]
           now     == SendLoop([i \in Ids |-> <<>>], pg.vertices, pg.nodes)
           v       == calculate(pg.vertices[vid], now[vid], pg.num_vertices, damping)
           w       == [v EXCEPT !.rank = RAdd(@, pg.dangling_share)]
           vs      == [pg.vertices EXCEPT ![vid] = w]
           endStep == pg.k = pg.num_vertices
           last    == endStep /\ pg.rounds + 1 >= iterations
       IN  pg' = [pg EXCEPT !.vertices = vs,
                            !.k = IF endStep THEN 0 ELSE @ + 1,
                            !.rounds = IF endStep THEN @ + 1 ELSE @,
                            !.pc = IF last THEN "done"
                                   ELSE IF endStep THEN "send" ELSE "compute",
                            !.result = IF last THEN Ranks(vs) ELSE <<>>]
    /\ UNCHANGED <<documents, rankArgs, mr, indexVars, searchVars>>

\* one pass of "for v in vertices.values()" of the compute phase
PGCompute ==
    /\ pg.pc = "compute"
    /\ LET vid     == pg.nodes[pg.k]
           v       == calculate(pg.vertices[vid], pg.messages[vid],
                                pg.num_vertices, damping)
           w       == [v EXCEPT !.rank = RAdd(@, pg.dangling_share)]
           vs      == [pg.vertices EXCEPT ![vid] = w]
           endStep == pg.k = pg.num_vertices
           last    == endStep /\ pg.rounds + 1 >= iterations
       IN  pg' = [pg EXCEPT !.vertices = vs,
                            !.k = IF endStep THEN 0 ELSE @ + 1,
                            !.rounds = IF endStep THEN @ + 1 ELSE @,
                            !.pc = IF last THEN "done"
                                   ELSE IF endStep THEN "send" ELSE "compute",
                            !.result = IF last THEN Ranks(vs) ELSE <<>>]
    /\ UNCHANGED <<documents, rankArgs, mr, indexVars, searchVars>>

(***************************************************************************)
(* Text.  A text is a sequence of characters; NULL is a content column     *)
(* that holds SQL NULL (documents.content is declared without NOT NULL).   *)
(***************************************************************************)
NULL == <<"NULL">>

\* the characters of [A-Za-zА-Яа-я0-9] that the texts tried here use
WordChars == {"a", "b", "A", "B"}

\* str.lower() on one character
LowerChar(c) == IF c = "A" THEN "a" ELSE IF c = "B" THEN "b" ELSE c

lower(t) == [i \in 1..Len(t) |-> LowerChar(t[i])]

\* TOKEN_RE.findall(text): the maximal runs of word characters, left to right
RECURSIVE FindAll(_, _, _)
FindAll(text, cur, out) ==
    IF text = <<>> THEN (IF cur = <<>> THEN out ELSE Append(out, cur))
    ELSE IF Head(text) \in WordChars
         THEN FindAll(Tail(text), Append(cur, Head(text)), out)
         ELSE FindAll(Tail(text), <<>>, IF cur = <<>> THEN out ELSE Append(out, cur))

tokenize(text) ==
    LET found == FindAll(text, <<>>, <<>>)
    IN  [i \in 1..Len(found) |-> lower(found[i])]

\* a Counter of the distinct tokens: every count is 1
RECURSIVE CounterOfSet(_, _)
CounterOfSet(tokens, freqs) ==
    IF tokens = <<>> THEN freqs
    ELSE IF \E i \in 1..Len(freqs) : freqs[i][1] = Head(tokens)
         THEN CounterOfSet(Tail(tokens), freqs)
         ELSE CounterOfSet(Tail(tokens), Append(freqs, <<Head(tokens), 1>>))

\* Counter(tokens).items(): (token, count) in order of first occurrence
RECURSIVE Counter(_, _)
Counter(tokens, freqs) ==
    IF tokens = <<>> THEN freqs
    ELSE LET t == Head(tokens)
         IN  IF \E i \in 1..Len(freqs) : freqs[i][1] = t
             THEN Counter(Tail(tokens),
                          [i \in 1..Len(freqs) |->
                              IF freqs[i][1] = t THEN <<t, freqs[i][2] + 1>> ELSE freqs[i]])
             ELSE Counter(Tail(tokens), Append(freqs, <<t, 1>>))

(***************************************************************************)
(* storage.py: tables terms (rows [id, term]) and postings (rows           *)
(* [term_id, doc_id, tf]); term_seq is the AUTOINCREMENT counter of terms, *)
(* which DELETE does not reset.                                            *)
(***************************************************************************)
EmptyIndex == [terms |-> <<>>, postings |-> <<>>, term_seq |-> 0]

\* DELETE FROM postings
DeletePostings(d) == [d EXCEPT !.postings = <<>>]

\* DELETE FROM terms that leaves every row in place
DeleteTermsKept(d) == d

\* DELETE FROM terms, with ON DELETE CASCADE on postings.term_id (get_connection
\* sets PRAGMA foreign_keys = ON)
DeleteTerms(d) == [d EXCEPT !.terms = <<>>, !.postings = <<>>]

\* SELECT id FROM terms WHERE term = ?; 0 stands for "no row"
TermId(d, term) ==
    IF \E i \in 1..Len(d.terms) : d.terms[i].term = term
    THEN d.terms[CHOOSE i \in 1..Len(d.terms) : d.terms[i].term = term].id
    ELSE 0

\* the returned id, the tables after the call, and whether it committed
get_or_create_term_id(d, term) ==
    LET found == TermId(d, term)
    IN  IF found # 0
        THEN [id |-> found, db |-> d, commit |-> FALSE]
        ELSE [id |-> d.term_seq + 1,
              db |-> [d EXCEPT !.terms = Append(@, [id |-> d.term_seq + 1, term |-> term]),
                               !.term_seq = @ + 1],
              commit |-> TRUE]

\* one pass of "for term, tf in term_freqs" of insert_postings
InsertPosting(d, doc_id, tf_pair) ==
    LET r == get_or_create_term_id(d, tf_pair[1])
    IN  [r.db EXCEPT !.postings =
            Append(@, [term_id |-> r.id, doc_id |-> doc_id, tf |-> tf_pair[2]])]

RECURSIVE insert_postings(_, _, _)
insert_postings(d, doc_id, term_freqs) ==
    IF term_freqs = <<>> THEN d
    ELSE insert_postings(InsertPosting(d, doc_id, Head(term_freqs)), doc_id,
                         Tail(term_freqs))

\* rows sorted by doc_id ascending, rows of one doc_id in table order
RECURSIVE OrderByDocId(_)
OrderByDocId(rows) ==
    IF rows = <<>> THEN <<>>
    ELSE LET least == CHOOSE i \in 1..Len(rows) :
                          /\ \A j \in 1..Len(rows) : rows[i].doc_id <= rows[j].doc_id
                          /\ \A j \in 1..(i - 1) : rows[j].doc_id # rows[i].doc_id
         IN  <<rows[least]>> \o
             OrderByDocId([j \in 1..(Len(rows) - 1) |->
                              IF j < least THEN rows[j] ELSE rows[j + 1]])

RECURSIVE RowsOfTerm(_, _)
RowsOfTerm(rows, term_id) ==
    IF rows = <<>> THEN <<>>
    ELSE IF Head(rows).term_id = term_id
         THEN <<Head(rows)>> \o RowsOfTerm(Tail(rows), term_id)
         ELSE RowsOfTerm(Tail(rows), term_id)

\* the list of (doc_id, tf) of a term, ordered by doc_id
get_term_postings(d, term) ==
    LET term_id == TermId(d, term)
    IN  IF term_id = 0 THEN <<>>
        ELSE LET rows == OrderByDocId(RowsOfTerm(d.postings, term_id))
             IN  [i \in 1..Len(rows) |-> <<rows[i].doc_id, rows[i].tf>>]

(***************************************************************************)
(* search_engine.py: build_inverted_index, one action per statement that   *)
(* can be observed from another connection or can raise.                   *)
(***************************************************************************)
BldIdle == [pc |-> "idle", docs |-> <<>>, i |-> 0, term_freqs |-> <<>>, builds |-> 0]

\* completed: builds that reached conn.close(); docs, triples: the documents the
\* last of them read and the postings it left; prev_*: the same of the one before
NoHist == [completed |-> 0, docs |-> <<>>, triples |-> {},
           prev_docs |-> <<>>, prev_triples |-> {}, recrawled |-> FALSE]

\* the postings of an index as (term text, document id, frequency) triples
Triples(d) ==
    {<<d.terms[k].term, d.postings[j].doc_id, d.postings[j].tf>> :
        <<j, k>> \in {p \in (1..Len(d.postings)) \X (1..Len(d.terms)) :
                         d.terms[p[2]].id = d.postings[p[1]].term_id}}

\* the whole of a build that does not raise, on a connection that sees d
RECURSIVE BuildDocs(_, _)
BuildDocs(d, docs) ==
    IF docs = <<>> THEN d
    ELSE BuildDocs(insert_postings(d, Head(docs).id,
                                   Counter(tokenize(Head(docs).content), <<>>)),
                   Tail(docs))

BuiltIndex(d, docs) == BuildDocs(DeleteTerms(DeletePostings(d)), docs)

\* build_inverted_index is called on a new connection; init_db changes nothing
\* and clear_index runs DELETE FROM postings (executescript commits each
\* statement on its own)
BuildCall ==
    /\ bld.pc \in {"idle", "done", "error"}
    /\ bld.builds < MaxBuilds
    /\ bld' = [bld EXCEPT !.pc = "clear_terms", !.docs = <<>>, !.i = 0,
                          !.term_freqs = <<>>, !.builds = @ + 1]
    /\ db' = DeletePostings(committed)
    /\ committed' = db'
    /\ UNCHANGED <<documents, hist, rankArgs, mr, pg, searchVars>>

\* a clear_index that also runs DELETE FROM documents, which cascades to links
BuildClearTermsAndDocuments ==
    /\ bld.pc = "clear_terms"
    /\ bld' = [bld EXCEPT !.pc = "read_docs"]
    /\ db' = DeleteTerms(db)
    /\ committed' = db'
    /\ documents' = <<>>
    /\ links' = <<>>
    /\ UNCHANGED <<hist, iterations, damping, mr, pg, searchVars>>

\* clear_index runs DELETE FROM terms
BuildClearTerms ==
    /\ bld.pc = "clear_terms"
    /\ bld' = [bld EXCEPT !.pc = "read_docs"]
    /\ db' = DeleteTerms(db)
    /\ committed' = db'
    /\ UNCHANGED <<documents, hist, rankArgs, mr, pg, searchVars>>

\* docs = get_all_documents(conn)
BuildReadDocs ==
    /\ bld.pc = "read_docs"
    /\ bld' = [bld EXCEPT !.pc = IF documents = <<>> THEN "close" ELSE "tokenize",
                          !.docs = documents, !.i = 1]
    /\ UNCHANGED <<documents, db, committed, hist, rankArgs, mr, pg, searchVars>>

\* tokenize(content) and Counter for document i; TOKEN_RE.findall(None)
\* raises TypeError, which nothing in build_inverted_index catches
BuildTokenize ==
    /\ bld.pc = "tokenize"
    /\ LET content == bld.docs[bld.i].content
       IN  IF content = NULL
           THEN bld' = [bld EXCEPT !.pc = "error"]
           ELSE bld' = [bld EXCEPT !.pc = "insert",
                                   !.term_freqs = Counter(tokenize(content), <<>>)]
    /\ UNCHANGED <<documents, db, committed, hist, rankArgs, mr, pg, searchVars>>

\* one pass of the loop of insert_postings: get_or_create_term_id commits
\* when it creates the term, and the INSERT INTO postings stays uncommitted
BuildInsertPosting ==
    /\ bld.pc = "insert"
    /\ bld.term_freqs # <<>>
    /\ LET r == get_or_create_term_id(db, Head(bld.term_freqs)[1])
       IN  /\ db' = InsertPosting(db, bld.docs[bld.i].id, Head(bld.term_freqs))
           /\ committed' = IF r.commit THEN r.db ELSE committed
    /\ bld' = [bld EXCEPT !.term_freqs = Tail(@)]
    /\ UNCHANGED <<documents, hist, rankArgs, mr, pg, searchVars>>

\* conn.commit() at the end of insert_postings, and the next document
BuildCommit ==
    /\ bld.pc = "insert"
    /\ bld.term_freqs = <<>>
    /\ committed' = db
    /\ bld' = [bld EXCEPT !.pc = IF bld.i = Len(bld.docs) THEN "close" ELSE "tokenize",
                          !.i = @ + 1]
    /\ UNCHANGED <<documents, db, hist, rankArgs, mr, pg, searchVars>>

\* conn.close(): the build has completed
BuildClose ==
    /\ bld.pc = "close"
    /\ bld' = [bld EXCEPT !.pc = "done"]
    /\ hist' = [hist EXCEPT !.completed = @ + 1,
                           !.docs = bld.docs, !.triples = Triples(committed),
                           !.prev_docs = hist.docs, !.prev_triples = hist.triples]
    /\ UNCHANGED <<documents, db, committed, rankArgs, mr, pg, searchVars>>

\* upsert_document on an existing url: a recrawl replaces the content of one
\* document; load_to_db runs between builds, and once in a behaviour
UpsertDocument ==
    /\ bld.pc \in {"done", "error"}
    /\ ~hist.recrawled
    /\ hist' = [hist EXCEPT !.recrawled = TRUE]
    /\ \E i \in 1..Len(documents), content \in Texts \cup {NULL} :
          /\ content # documents[i].content
          /\ documents' = [documents EXCEPT ![i].content = content]
    /\ UNCHANGED <<db, committed, bld, rankArgs, mr, pg, searchVars>>

(***************************************************************************)
(* search_engine.py: the two search functions.  A dict is a sequence of    *)
(* <<key, value>> pairs in insertion order; list indices are 1-based here. *)
(***************************************************************************)
DictHas(dict, key) == \E i \in 1..Len(dict) : dict[i][1] = key

DictGet(dict, key, default) ==
    IF DictHas(dict, key)
    THEN dict[CHOOSE i \in 1..Len(dict) : dict[i][1] = key][2]
    ELSE default

\* dict[key] = value: a present key keeps its place
DictSet(dict, key, value) ==
    IF DictHas(dict, key)
    THEN [i \in 1..Len(dict) |-> IF dict[i][1] = key THEN <<key, value>> ELSE dict[i]]
    ELSE Append(dict, <<key, value>>)

\* "if pagerank:" is false for None and for an empty dict
Truthy(pr) == ~pr.none /\ DOMAIN pr.dict # {}

\* pagerank.get(doc_id, 0.0)
PagerankGet(pr, doc_id) == IF doc_id \in DOMAIN pr.dict THEN pr.dict[doc_id] ELSE Zero

\* the blend with alpha left out
BlendNoAlpha(results, pr, al) ==
    IF Truthy(pr)
    THEN [i \in 1..Len(results) |->
            <<results[i][1], RAdd(results[i][2], PagerankGet(pr, results[i][1]))>>]
    ELSE results

\* for doc_id in results: results[doc_id] += alpha * pagerank.get(doc_id, 0.0)
Blend(results, pr, al) ==
    IF Truthy(pr)
    THEN [i \in 1..Len(results) |->
            <<results[i][1], RAdd(results[i][2], RMul(al, PagerankGet(pr, results[i][1])))>>]
    ELSE results

\* an item put in front of the items of equal score
InsertDescTiesReversed(sorted, item) ==
    LET place == Cardinality({j \in 1..Len(sorted) : RLess(item[2], sorted[j][2])})
    IN  SubSeq(sorted, 1, place) \o <<item>> \o SubSeq(sorted, place + 1, Len(sorted))

\* sorted(..., key=lambda x: x[1], reverse=True) is stable: an item goes
\* behind every item whose score is not smaller
InsertDesc(sorted, item) ==
    LET place == Cardinality({j \in 1..Len(sorted) : ~RLess(sorted[j][2], item[2])})
    IN  SubSeq(sorted, 1, place) \o <<item>> \o SubSeq(sorted, place + 1, Len(sorted))

RECURSIVE SortedDescFrom(_, _)
SortedDescFrom(sorted, items) ==
    IF items = <<>> THEN sorted
    ELSE SortedDescFrom(InsertDesc(sorted, Head(items)), Tail(items))

SortedDesc(items) == SortedDescFrom(<<>>, items)

\* the blend and the sort both functions end with
Finish(results, pr, al) == SortedDesc(Blend(results, pr, al))

\* terms = [t.lower() for t in query_terms]
LowerAll(terms) == [i \in 1..Len(terms) |-> lower(terms[i])]

Max(S) == CHOOSE x \in S : \A y \in S : y <= x
Min(S) == CHOOSE x \in S : \A y \in S : x <= y

\* a score that counts the lists instead of adding their frequencies
SumTfOnes(score, postings_lists, indices, i) == FromInt(Len(postings_lists))

\* score += float(tf) over the lists, from 0.0
RECURSIVE SumTf(_, _, _, _)
SumTf(score, postings_lists, indices, i) ==
    IF i > Len(postings_lists) THEN score
    ELSE SumTf(RAdd(score, FromInt(postings_lists[i][indices[i]][2])),
               postings_lists, indices, i + 1)

\* the cursor moved past max_id as well ("<=" for "<")
RECURSIVE AdvancePast(_, _, _)
AdvancePast(pl, idx, max_id) ==
    IF idx <= Len(pl) /\ pl[idx][1] <= max_id THEN AdvancePast(pl, idx + 1, max_id) ELSE idx

\* the inner while without its "indices[i] += 1"
AdvanceStuck(pl, idx, max_id) == idx

\* while indices[i] < len(pl) and pl[indices[i]][0] < max_id: indices[i] += 1
RECURSIVE Advance(_, _, _)
Advance(pl, idx, max_id) ==
    IF idx <= Len(pl) /\ pl[idx][1] < max_id THEN Advance(pl, idx + 1, max_id) ELSE idx

\* one pass of "while True" of search_by_documents; exhausted: the pass
\* found a cursor at the end of its list and the function returns
MergePass(postings_lists, indices, results) ==
    LET n == Len(postings_lists)
    IN  IF \E i \in 1..n : indices[i] > Len(postings_lists[i])
        THEN [exhausted |-> TRUE, indices |-> indices, results |-> results]
        ELSE LET current_ids == {postings_lists[i][indices[i]][1] : i \in 1..n}
                 max_id      == Max(current_ids)
                 min_id      == Min(current_ids)
             IN  IF max_id = min_id
                 THEN [exhausted |-> FALSE,
                       indices   |-> [i \in 1..n |-> indices[i] + 1],
                       results   |-> DictSet(results, max_id,
                                             SumTf(Zero, postings_lists, indices, 1))]
                 ELSE [exhausted |-> FALSE,
                       indices   |-> [i \in 1..n |->
                                         Advance(postings_lists[i], indices[i], max_id)],
                       results   |-> results]

\* the early return without "not postings_lists"
NothingToMergeSomeEmpty(postings_lists) ==
    \E i \in 1..Len(postings_lists) : postings_lists[i] = <<>>

\* "if not postings_lists or any(not pl for pl in postings_lists)"
NothingToMerge(postings_lists) ==
    postings_lists = <<>> \/ \E i \in 1..Len(postings_lists) : postings_lists[i] = <<>>

SDIdle == [pc |-> "call", terms |-> <<>>, postings_lists |-> <<>>, indices |-> <<>>,
           results |-> <<>>, passes |-> 0, result |-> <<>>]

SDStart ==
    /\ sd.pc = "call"
    /\ sd' = [sd EXCEPT !.pc = "fetch", !.terms = LowerAll(query_terms)]
    /\ UNCHANGED <<documents, rankArgs, mr, pg, indexVars, query_terms, pagerank, alpha, st>>

\* one get_term_postings of the list comprehension, on the search's own connection
SDFetch ==
    /\ sd.pc = "fetch"
    /\ Len(sd.postings_lists) < Len(sd.terms)
    /\ sd' = [sd EXCEPT !.postings_lists =
                 Append(@, get_term_postings(committed, sd.terms[Len(@) + 1]))]
    /\ UNCHANGED <<documents, rankArgs, mr, pg, indexVars, query_terms, pagerank, alpha, st>>

\* the early return, or the cursors at the head of every list
SDCheck ==
    /\ sd.pc = "fetch"
    /\ Len(sd.postings_lists) = Len(sd.terms)
    /\ IF NothingToMerge(sd.postings_lists)
       THEN sd' = [sd EXCEPT !.pc = "done", !.result = <<>>]
       ELSE sd' = [sd EXCEPT !.pc = "loop",
                             !.indices = [i \in 1..Len(sd.postings_lists) |-> 1]]
    /\ UNCHANGED <<documents, rankArgs, mr, pg, indexVars, query_terms, pagerank, alpha, st>>

SDPass ==
    /\ sd.pc = "loop"
    /\ LET p == MergePass(sd.postings_lists, sd.indices, sd.results)
       IN  IF p.exhausted
           THEN sd' = [sd EXCEPT !.pc = "done", !.passes = @ + 1,
                                 !.result = Finish(sd.results, pagerank, alpha)]
           ELSE sd' = [sd EXCEPT !.indices = p.indices, !.results = p.results,
                                 !.passes = @ + 1]
    /\ UNCHANGED <<documents, rankArgs, mr, pg, indexVars, query_terms, pagerank, alpha, st>>

\* scores[doc_id] = float(tf): the frequency stored, not added
RECURSIVE AccumulateOverwrite(_, _)
AccumulateOverwrite(scores, postings) ==
    IF postings = <<>> THEN scores
    ELSE AccumulateOverwrite(DictSet(scores, Head(postings)[1], FromInt(Head(postings)[2])),
                             Tail(postings))

\* scores[doc_id] = scores.get(doc_id, 0.0) + float(tf) over one posting list
RECURSIVE Accumulate(_, _)
Accumulate(scores, postings) ==
    IF postings = <<>> THEN scores
    ELSE Accumulate(DictSet(scores, Head(postings)[1],
                            RAdd(DictGet(scores, Head(postings)[1], Zero),
                                 FromInt(Head(postings)[2]))),
                    Tail(postings))

STIdle == [pc |-> "call", terms |-> <<>>, t |-> 0, scores |-> <<>>, result |-> <<>>]

\* main() searches by terms after it has searched by documents
STStart ==
    /\ sd.pc = "done"
    /\ st.pc = "call"
    /\ st' = [st EXCEPT !.pc = "terms", !.terms = LowerAll(query_terms), !.t = 1]
    /\ UNCHANGED <<documents, rankArgs, mr, pg, indexVars, query_terms, pagerank, alpha, sd>>

\* one pass of "for term in terms"
STTerm ==
    /\ st.pc = "terms"
    /\ st.t <= Len(st.terms)
    /\ st' = [st EXCEPT !.t = @ + 1,
                        !.scores = Accumulate(@, get_term_postings(committed, st.terms[st.t]))]
    /\ UNCHANGED <<documents, rankArgs, mr, pg, indexVars, query_terms, pagerank, alpha, sd>>

STFinish ==
    /\ st.pc = "terms"
    /\ st.t > Len(st.terms)
    /\ st' = [st EXCEPT !.pc = "done", !.result = Finish(st.scores, pagerank, alpha)]
    /\ UNCHANGED <<documents, rankArgs, mr, pg, indexVars, query_terms, pagerank, alpha, sd>>

(***************************************************************************)
(* The two search functions as functions of the index and the arguments,   *)
(* built from the same passes as the actions above.                        *)
(***************************************************************************)
RECURSIVE MergeLoop(_, _, _)
MergeLoop(postings_lists, indices, results) ==
    LET p == MergePass(postings_lists, indices, results)
    IN  IF p.exhausted THEN results ELSE MergeLoop(postings_lists, p.indices, p.results)

search_by_documents(d, terms_in, pr, al) ==
    LET terms          == LowerAll(terms_in)
        postings_lists == [i \in 1..Len(terms) |-> get_term_postings(d, terms[i])]
    IN  IF NothingToMerge(postings_lists) THEN <<>>
        ELSE Finish(MergeLoop(postings_lists, [i \in 1..Len(terms) |-> 1], <<>>), pr, al)

RECURSIVE TermLoop(_, _, _)
TermLoop(d, scores, terms) ==
    IF terms = <<>> THEN scores
    ELSE TermLoop(d, Accumulate(scores, get_term_postings(d, Head(terms))), Tail(terms))

search_by_terms(d, terms_in, pr, al) ==
    Finish(TermLoop(d, <<>>, LowerAll(terms_in)), pr, al)

(***************************************************************************)
(* Specifications.  Each starts from tables the program can hold and runs  *)
(* the calls main() makes, in main()'s order.                              *)
(***************************************************************************)
\* documents 1..n in rowid order, with the given contents
DocRowsWith(contents) == [i \in 1..Len(contents) |-> [id |-> i, content |-> contents[i]]]

Corpora(texts) == {DocRowsWith(c) : c \in SeqsUpTo(texts, MaxCorpus)}

\* no ranking call is running or has run
RankIdle ==
    /\ links = <<>>
    /\ iterations = 0
    /\ damping = <<17, 20>>
    /\ mr = MRIdle
    /\ pg = PGIdle

\* no search call is running or has run
SearchIdle ==
    /\ query_terms = <<>>
    /\ pagerank = NoPagerank
    /\ alpha = <<1, 10>>
    /\ sd = SDIdle
    /\ st = STIdle

\* no index has been built on the fresh tables of init_db
IndexIdle ==
    /\ db = EmptyIndex
    /\ committed = EmptyIndex
    /\ bld = BldIdle
    /\ hist = NoHist

\* one build has completed on the documents
IndexBuilt ==
    /\ db = BuiltIndex(EmptyIndex, documents)
    /\ committed = db
    /\ bld = [BldIdle EXCEPT !.pc = "done", !.docs = documents, !.builds = 1]
    /\ hist = [NoHist EXCEPT !.completed = 1, !.docs = documents, !.triples = Triples(db)]

\* ranking: main() runs pagerank_mapreduce and then pagerank_pregel
InitRank ==
    /\ \E n \in 0..MaxDocs : documents = DocRows(n)
    /\ links \in SeqsUpTo(Ids \X Ids, MaxLinks)
    /\ iterations \in 0..MaxIter
    /\ damping \in Dampings
    /\ mr = MRIdle
    /\ pg = PGIdle
    /\ IndexIdle
    /\ SearchIdle

NextRank == MRStart \/ MRMap \/ MRReduce \/ PGStart \/ PGSend \/ PGCompute

SpecRank == InitRank /\ [][NextRank]_vars

\* tables links with parallel rows and self-links: up to MaxMultiLinks rows
\* from document 1 to any document, then no row or one row from 2 back to 1
MultiLinks ==
    {rows \o back : rows \in SeqsUpTo({1} \X (1..MaxMultiDocs), MaxMultiLinks),
                    back \in {<<>>, <<<<2, 1>>>>}}

\* ranking on graphs with parallel links and self-links among the documents
InitMulti ==
    /\ documents = DocRows(MaxMultiDocs)
    /\ links \in MultiLinks
    /\ iterations \in 0..MaxIter
    /\ damping \in Dampings
    /\ mr = MRIdle
    /\ pg = PGIdle
    /\ IndexIdle
    /\ SearchIdle

NextMulti == MRStart \/ MRMap \/ MRReduce \/ PGStart \/ PGSend \/ PGCompute

SpecMulti == InitMulti /\ [][NextMulti]_vars

\* searching a built index: main() runs search_by_documents and then
\* search_by_terms with the same arguments
InitSearch ==
    /\ documents \in Corpora(Texts)
    /\ IndexBuilt
    /\ query_terms \in SeqsUpTo(QueryWords, MaxQueryLen)
    /\ \E a \in AuthorityArgs : pagerank = a[1] /\ alpha = a[2]
    /\ sd = SDIdle
    /\ st = STIdle
    /\ RankIdle

NextSearch == SDStart \/ SDFetch \/ SDCheck \/ SDPass \/ STStart \/ STTerm \/ STFinish

SpecSearch == InitSearch /\ [][NextSearch]_vars

\* building: build_inverted_index called again and again, with a recrawl
\* between two builds
InitIndex ==
    /\ documents \in Corpora(Texts \cup {NULL})
    /\ IndexIdle
    /\ SearchIdle
    /\ RankIdle

NextIndex ==
    \/ BuildCall \/ BuildClearTerms \/ BuildReadDocs \/ BuildTokenize
    \/ BuildInsertPosting \/ BuildCommit \/ BuildClose \/ UpsertDocument

SpecIndex == InitIndex /\ [][NextIndex]_vars

\* a rebuild of a built index while the two searches run on connections of
\* their own
InitConcurrent ==
    /\ documents \in Corpora(Texts)
    /\ IndexBuilt
    /\ query_terms \in SeqsUpTo(QueryWords, MaxQueryLen)
    /\ pagerank = NoPagerank
    /\ alpha = <<1, 10>>
    /\ sd = SDIdle
    /\ st = STIdle
    /\ RankIdle

NextConcurrent ==
    \/ BuildCall \/ BuildClearTerms \/ BuildReadDocs \/ BuildTokenize
    \/ BuildInsertPosting \/ BuildCommit \/ BuildClose
    \/ SDStart \/ SDFetch \/ SDCheck \/ SDPass \/ STStart \/ STTerm \/ STFinish

SpecConcurrent == InitConcurrent /\ [][NextConcurrent]_vars

\* the queries of main(): two words each, one of them with a word no text holds
MainQueries == {<<<<"a">>, <<"B">>>>, <<<<"a", "b">>, <<"c">>>>}

\* no link, or a ring through the documents (a self-link for one document)
MainLinks(docs) ==
    {<<>>, [i \in 1..Len(docs) |-> <<docs[i].id, docs[(i % Len(docs)) + 1].id>>]}

\* the calls of main() in main()'s order: the two rankings, then
\* build_inverted_index, then the two searches
InitMain ==
    /\ documents \in Corpora(Texts)
    /\ links \in MainLinks(documents)
    /\ iterations \in 0..MaxIter
    /\ damping = <<17, 20>>
    /\ mr = MRIdle
    /\ pg = PGIdle
    /\ IndexIdle
    /\ query_terms \in MainQueries
    /\ \E a \in AuthorityArgs : pagerank = a[1] /\ alpha = a[2]
    /\ sd = SDIdle
    /\ st = STIdle

NextMain ==
    \/ MRStart \/ MRMap \/ MRReduce \/ PGStart \/ PGSend \/ PGCompute
    \/ (pg.pc = "done" /\ sd.pc = "call" /\ BuildCall)
    \/ BuildClearTerms \/ BuildReadDocs \/ BuildTokenize
    \/ BuildInsertPosting \/ BuildCommit \/ BuildClose
    \/ (bld.pc = "done" /\ SDStart)
    \/ SDFetch \/ SDCheck \/ SDPass \/ STStart \/ STTerm \/ STFinish

SpecMain == InitMain /\ [][NextMain]_vars

(***************************************************************************)
(* Claims about the ranking strategies (checked under SpecRank).           *)
(***************************************************************************)
DocIdSet == {documents[i].id : i \in 1..Len(documents)}

HasDangling == \E n \in DocIdSet : OutLinks(links, n) = <<>>

LinksAmongDocuments ==
    \A i \in 1..Len(links) : links[i][1] \in DocIdSet /\ links[i][2] \in DocIdSet

RECURSIVE Total(_)
Total(f) ==
    IF DOMAIN f = {} THEN Zero
    ELSE LET n == CHOOSE x \in DOMAIN f : TRUE
         IN  RAdd(f[n], Total([m \in DOMAIN f \ {n} |-> f[m]]))

\* C1: on the same documents, links, damping and iteration count,
\* pagerank_mapreduce and pagerank_pregel return the same document ids and,
\* per document, the same rank.
C1_SameRanks ==
    (mr.pc = "done" /\ pg.pc = "done") =>
        /\ DOMAIN mr.result = DOMAIN pg.result
        /\ \A n \in DOMAIN mr.result : mr.result[n] = pg.result[n]

\* both strategies returned after at least one round on a graph with a link,
\* a dangling document and ranks that are no longer uniform
C1_Witness ==
    /\ mr.pc = "done" /\ pg.pc = "done"
    /\ iterations >= 1 /\ mr.rounds = iterations /\ pg.rounds = iterations
    /\ Len(documents) >= 2 /\ links # <<>> /\ HasDangling
    /\ \E a, b \in DOMAIN pg.result : pg.result[a] # pg.result[b]

\* C2: on a non-empty graph whose link endpoints are all documents the rank
\* vector sums to 1 at every iteration boundary of both strategies (before
\* the first round and after each round), dangling documents included.
C2_SumIsOne ==
    (Len(documents) >= 1 /\ LinksAmongDocuments) =>
        /\ mr.pc \in {"map", "done"} => Total(mr.ranks) = One
        /\ pg.pc \in {"send", "done"} => Total(Ranks(pg.vertices)) = One

\* both strategies finished at least one round on a graph that has a dangling
\* document and a linked one, and the ranks differ
C2_Witness ==
    /\ Len(documents) >= 2 /\ LinksAmongDocuments /\ links # <<>> /\ HasDangling
    /\ mr.pc = "done" /\ mr.rounds >= 1
    /\ pg.pc = "done" /\ pg.rounds >= 1
    /\ \E a, b \in DOMAIN mr.ranks : mr.ranks[a] # mr.ranks[b]

\* the vector both strategies start from: 1/N for every document
InitialRanks == [n \in DocIdSet |-> RDiv(One, Len(documents))]

\* C11 as stated, for every graph: each strategy returns after exactly
\* `iterations` rounds.
C11_ExactRoundsEveryGraph ==
    /\ mr.pc = "done" => mr.rounds = iterations
    /\ pg.pc = "done" => pg.rounds = iterations

\* C11 as amended: on a graph with at least one document each strategy runs
\* exactly `iterations` rounds and then returns: never more rounds, no return
\* before the last round (fixed point or not), and the return right after it.
C11_ExactRounds ==
    Len(documents) >= 1 =>
        /\ mr.rounds <= iterations /\ pg.rounds <= iterations
        /\ mr.pc = "done" => mr.rounds = iterations
        /\ pg.pc = "done" => pg.rounds = iterations
        /\ (mr.pc # "call" /\ mr.rounds = iterations) => mr.pc = "done"
        /\ (pg.pc # "call" /\ pg.rounds = iterations) => pg.pc = "done"

\* both strategies ran two rounds or more on a graph whose initial vector is
\* already the fixed point, and returned it
C11_Witness ==
    /\ Len(documents) >= 2 /\ links # <<>>
    /\ iterations >= 2
    /\ mr.pc = "done" /\ mr.rounds = iterations /\ mr.result = InitialRanks
    /\ pg.pc = "done" /\ pg.rounds = iterations /\ pg.result = InitialRanks

\* C12: without documents both strategies return the empty vector at once:
\* no round is run (so nothing is divided by N = 0) and nothing is raised.
C12_EmptyGraph ==
    documents = <<>> =>
        /\ mr.pc \in {"call", "done"} /\ mr.rounds = 0
        /\ pg.pc \in {"call", "done"} /\ pg.rounds = 0
        /\ mr.pc = "done" => mr.result = <<>>
        /\ pg.pc = "done" => pg.result = <<>>

\* both returned on an empty documents table, asked for a round or more
C12_Witness ==
    /\ documents = <<>> /\ iterations >= 1
    /\ mr.pc = "done" /\ pg.pc = "done"
    /\ mr.result = <<>> /\ pg.result = <<>>

\* documents 1 and 2 and the two links 1 -> 2 and 2 -> 1, in either row order
TwoCycle ==
    /\ Len(documents) = 2
    /\ links \in {<<<<1, 2>>, <<2, 1>>>>, <<<<2, 1>>, <<1, 2>>>>}

Halves == [n \in DocIdSet |-> <<1, 2>>]

\* C14: on the 2-cycle both strategies hold rank 1/2 for each of the two
\* documents before the first round and after every round, and return it.
C14_TwoCycleHalves ==
    TwoCycle =>
        /\ mr.pc \in {"map", "done"} => mr.ranks = Halves
        /\ pg.pc \in {"send", "done"} => Ranks(pg.vertices) = Halves
        /\ mr.pc = "done" => mr.result = Halves
        /\ pg.pc = "done" => pg.result = Halves

\* both strategies returned 1/2 and 1/2 on the 2-cycle after the largest
\* iteration count, with the default damping
C14_Witness ==
    /\ TwoCycle /\ damping = <<17, 20>> /\ iterations = MaxIter
    /\ mr.pc = "done" /\ mr.rounds = iterations /\ mr.result = Halves
    /\ pg.pc = "done" /\ pg.rounds = iterations /\ pg.result = Halves

(***************************************************************************)
(* The links as a multiset (checked under SpecMulti).                      *)
(***************************************************************************)
\* how many rows of links go from s to t, and how many leave s
Mult(s, t) == Cardinality({i \in 1..Len(links) : links[i] = <<s, t>>})
OutDeg(s)  == Cardinality({i \in 1..Len(links) : links[i][1] = s})

\* what the documents of S with out-links give to t: Mult/OutDeg of their rank
RECURSIVE LinkShareOver(_, _, _)
LinkShareOver(ranks, S, t) ==
    IF S = {} THEN Zero
    ELSE LET s == CHOOSE x \in S : TRUE
         IN  RAdd(IF OutDeg(s) > 0
                  THEN RMul(ranks[s], Rat(Mult(s, t), OutDeg(s)))
                  ELSE Zero,
                  LinkShareOver(ranks, S \ {s}, t))

LinkShare(ranks, t) == LinkShareOver(ranks, DocIdSet, t)

\* the rank held by the documents without out-links
DanglingSum(ranks) == Total([s \in {x \in DocIdSet : OutDeg(x) = 0} |-> ranks[s]])

\* C17: in each round a document with d rows in links, m of them to t,
\* gives t the fraction m/d of its rank: parallel rows add up and a row
\* from a document to itself counts like any other.  In map_phase this is
\* the contribution of t next to the dangling share; in the send phase it
\* is the sum of the messages of t.
C17_LinksAreMultiset ==
    /\ mr.pc = "reduce" =>
          \A t \in DocIdSet :
             mr.contributions[t] =
                 RAdd(LinkShare(mr.ranks, t), RDiv(DanglingSum(mr.ranks), mr.N))
    /\ (pg.pc = "compute" /\ pg.k = 1) =>
          \A t \in DocIdSet :
             SumFrom(Zero, pg.messages[t]) = LinkShare(Ranks(pg.vertices), t)

\* the send phase of a later superstep ran on a document that has three
\* rows: two to the same other document and one to itself
C17_Witness ==
    /\ \E s, t \in DocIdSet :
          s # t /\ Mult(s, t) = 2 /\ Mult(s, s) = 1 /\ OutDeg(s) = 3
    /\ mr.pc = "done" /\ mr.rounds >= 2
    /\ pg.pc = "compute" /\ pg.k = 1 /\ pg.rounds >= 1

\* one synchronous round on a vector: every document from the old vector only
SyncStep(ranks) ==
    [t \in DocIdSet |->
        RAdd(RAdd(RDiv(RSub(One, damping), Len(documents)),
                  RMul(damping, LinkShare(ranks, t))),
             RDiv(RMul(damping, DanglingSum(ranks)), Len(documents)))]

\* the vector after k synchronous rounds
RECURSIVE SyncIter(_)
SyncIter(k) == IF k = 0 THEN InitialRanks ELSE SyncStep(SyncIter(k - 1))

\* C15: during the compute phase of a superstep the messages and the
\* dangling share are those of the ranks at the start of the superstep; a
\* vertex already computed holds the rank one synchronous round gives it
\* from the start ranks, a vertex not yet computed still holds its start
\* rank; between supersteps the ranks are whole synchronous rounds.
C15_Barrier ==
    /\ pg.pc = "compute" =>
          LET start == SyncIter(pg.rounds)
              after == SyncStep(start)
          IN  /\ \A j \in 1..Len(pg.nodes) :
                    pg.vertices[pg.nodes[j]].rank =
                        IF j < pg.k THEN after[pg.nodes[j]] ELSE start[pg.nodes[j]]
              /\ \A t \in DocIdSet :
                    SumFrom(Zero, pg.messages[t]) = LinkShare(start, t)
              /\ pg.dangling_share =
                    RDiv(RMul(damping, DanglingSum(start)), Len(documents))
    /\ (pg.pc \in {"send", "done"} /\ documents # <<>>) =>
          Ranks(pg.vertices) = SyncIter(pg.rounds)

\* in a later superstep the first vertex has computed a rank other than its
\* start rank, and the second, which it links to, has not computed yet
C15_Witness ==
    /\ pg.pc = "compute" /\ pg.k = 2 /\ pg.rounds >= 1
    /\ Mult(pg.nodes[1], pg.nodes[2]) >= 1
    /\ pg.vertices[pg.nodes[1]].rank # SyncIter(pg.rounds)[pg.nodes[1]]
    /\ pg.vertices[pg.nodes[2]].rank = SyncIter(pg.rounds)[pg.nodes[2]]

(***************************************************************************)
(* Claims about the search functions (checked under SpecSearch, where the  *)
(* index is the one a completed build left and no build is running).       *)
(***************************************************************************)
\* the query terms as the search functions use them
QTerms == LowerAll(query_terms)

\* the documents of the posting list of a term
DocsOf(term) == {tr[2] : tr \in {x \in Triples(committed) : x[1] = term}}

\* the frequency of a term in a document, 0 without a posting
Tf(term, doc) ==
    IF doc \in DocsOf(term)
    THEN (CHOOSE tr \in Triples(committed) : tr[1] = term /\ tr[2] = doc)[3]
    ELSE 0

RECURSIVE BaseScoreFrom(_, _)
BaseScoreFrom(doc, i) ==
    IF i > Len(QTerms) THEN 0 ELSE Tf(QTerms[i], doc) + BaseScoreFrom(doc, i + 1)

\* the sum of the document's frequencies over the query terms
BaseScore(doc) == BaseScoreFrom(doc, 1)

\* alpha * authority[doc], 0 for a document without entry; nothing is added
\* when no vector or an empty one is supplied
Authority(doc) ==
    IF pagerank.none \/ DOMAIN pagerank.dict = {} THEN Zero
    ELSE IF doc \in DOMAIN pagerank.dict THEN RMul(alpha, pagerank.dict[doc]) ELSE Zero

FinalScore(doc) == RAdd(FromInt(BaseScore(doc)), Authority(doc))

DocsIn(result) == {result[i][1] : i \in 1..Len(result)}

\* every document at most once, each with its final score
WellScored(result) ==
    /\ Cardinality(DocsIn(result)) = Len(result)
    /\ \A i \in 1..Len(result) : result[i][2] = FinalScore(result[i][1])

AllDocIds == {documents[i].id : i \in 1..Len(documents)}

\* C3: search_by_documents with a non-empty term list returns exactly the
\* documents in the posting list of every query term, each scored with the
\* sum of its frequencies over the query terms (plus the blend); so the
\* result is empty when a query term has no postings.
C3_Intersection ==
    (sd.pc = "done" /\ query_terms # <<>>) =>
        /\ DocsIn(sd.result) =
              {d \in AllDocIds : \A i \in 1..Len(QTerms) : d \in DocsOf(QTerms[i])}
        /\ WellScored(sd.result)
        /\ (\E i \in 1..Len(QTerms) : DocsOf(QTerms[i]) = {}) => sd.result = <<>>

\* a two-term query matched one document and left out a document that holds
\* only one of the terms
C3_Witness ==
    /\ sd.pc = "done" /\ Len(query_terms) = 2 /\ QTerms[1] # QTerms[2]
    /\ sd.result # <<>>
    /\ \E d \in AllDocIds : d \notin DocsIn(sd.result) /\ d \in DocsOf(QTerms[1])

\* C4: search_by_terms returns exactly the documents in the posting list of
\* at least one query term, each scored with the sum of its frequencies over
\* the query terms that hold it (plus the blend); a term without postings
\* adds nothing and does not empty the result.
C4_Union ==
    st.pc = "done" =>
        /\ DocsIn(st.result) =
              {d \in AllDocIds : \E i \in 1..Len(QTerms) : d \in DocsOf(QTerms[i])}
        /\ WellScored(st.result)

\* a query whose second term the index lacks still returned a document, with
\* a frequency of 2 or more
C4_Witness ==
    /\ st.pc = "done" /\ Len(query_terms) = 2
    /\ DocsOf(QTerms[2]) = {}
    /\ st.result # <<>>
    /\ \E d \in DocsIn(st.result) : BaseScore(d) >= 2

\* C5: for the same index and arguments the documents search_by_documents
\* returns are among those search_by_terms returns, and a document returned
\* by both has the same score in both.
C5_SubsetSameScore ==
    (sd.pc = "done" /\ st.pc = "done") =>
        /\ DocsIn(sd.result) \subseteq DocsIn(st.result)
        /\ \A i \in 1..Len(sd.result), j \in 1..Len(st.result) :
              sd.result[i][1] = st.result[j][1] => sd.result[i][2] = st.result[j][2]

\* both returned, the intersection is not empty, the union is larger, and an
\* authority vector was blended in
C5_Witness ==
    /\ sd.pc = "done" /\ st.pc = "done"
    /\ sd.result # <<>>
    /\ Len(st.result) > Len(sd.result)
    /\ Truthy(pagerank) /\ alpha # Zero

\* document x is retrieved before document y by search_by_terms: x first
\* shows up under an earlier query term, or under the same one with the
\* smaller id
FirstTerm(doc) == Min({i \in 1..Len(QTerms) : doc \in DocsOf(QTerms[i])})

AccumulatedBefore(x, y) ==
    FirstTerm(x) < FirstTerm(y) \/ (FirstTerm(x) = FirstTerm(y) /\ x < y)

Descending(result) ==
    \A i, j \in 1..Len(result) : i < j => ~RLess(result[i][2], result[j][2])

\* C9: both results are sorted by final score, descending; documents of equal
\* score keep retrieval order: ascending id in search_by_documents, order of
\* first accumulation in search_by_terms.
C9_SortedStable ==
    /\ sd.pc = "done" =>
          /\ Descending(sd.result)
          /\ \A i, j \in 1..Len(sd.result) :
                (i < j /\ sd.result[i][2] = sd.result[j][2])
                    => sd.result[i][1] < sd.result[j][1]
    /\ st.pc = "done" =>
          /\ Descending(st.result)
          /\ \A i, j \in 1..Len(st.result) :
                (i < j /\ st.result[i][2] = st.result[j][2])
                    => AccumulatedBefore(st.result[i][1], st.result[j][1])

\* search_by_terms returned two documents of equal score with the larger id
\* first, because it was accumulated first
C9_Witness ==
    /\ sd.pc = "done" /\ st.pc = "done"
    /\ sd.result # <<>>
    /\ \E i, j \in 1..Len(st.result) :
          /\ i < j
          /\ st.result[i][2] = st.result[j][2]
          /\ st.result[i][1] > st.result[j][1]

\* C10: with alpha = 0 and an authority vector supplied, each search returns
\* what it returns with no authority vector: same documents, scores, order.
C10_AlphaZero ==
    (alpha = Zero /\ ~pagerank.none) =>
        /\ sd.pc = "done" =>
              sd.result = search_by_documents(committed, query_terms, NoPagerank, alpha)
        /\ st.pc = "done" =>
              st.result = search_by_terms(committed, query_terms, NoPagerank, alpha)

\* alpha = 0, a vector with different entries for two returned documents
C10_Witness ==
    /\ alpha = Zero /\ Truthy(pagerank)
    /\ sd.pc = "done" /\ st.pc = "done"
    /\ \E i, j \in 1..Len(sd.result) :
          PagerankGet(pagerank, sd.result[i][1]) # PagerankGet(pagerank, sd.result[j][1])


\* C13: with an empty list of query terms both searches return the empty
\* list, whatever the index holds and whatever authority vector is passed;
\* search_by_documents returns before its merge loop, whose max() of no
\* document ids would raise.
C13_EmptyQuery ==
    query_terms = <<>> =>
        /\ sd.pc \in {"call", "fetch", "done"} /\ sd.passes = 0
        /\ sd.pc = "done" => sd.result = <<>>
        /\ st.pc = "done" => st.result = <<>>

\* both searches returned on an empty query over an index with postings,
\* with an authority vector to blend
C13_Witness ==
    /\ query_terms = <<>>
    /\ sd.pc = "done" /\ st.pc = "done"
    /\ committed.postings # <<>>
    /\ Truthy(pagerank) /\ alpha # Zero

\* the entries of all posting lists of the running search_by_documents
RECURSIVE PostingsLeft(_)
PostingsLeft(lists) ==
    IF lists = <<>> THEN 0 ELSE Len(Head(lists)) + PostingsLeft(Tail(lists))

\* C16: a pass of the merge loop that finds a cursor at the end of its list
\* returns; any other pass stays in the loop, moves no cursor back and moves
\* at least one forward: every cursor on a match, every cursor below the
\* largest current document id otherwise.  So the loop ends within one pass
\* per posting entry, plus the pass that returns.
C16_MergeTerminates ==
    /\ []((sd.pc \in {"loop", "done"}) => sd.passes <= PostingsLeft(sd.postings_lists) + 1)
    /\ [][(sd.pc = "loop" /\ sd' # sd) =>
            LET n      == Len(sd.postings_lists)
                cur(i) == sd.postings_lists[i][sd.indices[i]][1]
            IN  IF \E i \in 1..n : sd.indices[i] > Len(sd.postings_lists[i])
                THEN sd'.pc = "done"
                ELSE /\ sd'.pc = "loop"
                     /\ \A i \in 1..n : sd'.indices[i] >= sd.indices[i]
                     /\ \E i \in 1..n : sd'.indices[i] > sd.indices[i]
                     /\ IF \A i, j \in 1..n : cur(i) = cur(j)
                        THEN \A i \in 1..n : sd'.indices[i] = sd.indices[i] + 1
                        ELSE \A i \in 1..n :
                                (\E j \in 1..n : cur(i) < cur(j))
                                    => sd'.indices[i] > sd.indices[i]]_vars

\* the loop returned after a pass that skipped a document, a pass that
\* matched one and the pass that found a list at its end
C16_Witness ==
    /\ sd.pc = "done" /\ sd.passes >= 3
    /\ sd.result # <<>> /\ Len(sd.result) < sd.passes - 1
    /\ \A i \in 1..Len(sd.indices) : sd.indices[i] > Len(sd.postings_lists[i])

(***************************************************************************)
(* Claims about the index builder (checked under SpecIndex and, for the    *)
(* searches that run during a rebuild, under SpecConcurrent).              *)
(***************************************************************************)
\* the index a completed build of the documents leaves
CompleteIndex == BuiltIndex(EmptyIndex, documents)

\* C6: a search that runs while build_inverted_index is in progress returns
\* what it returns on the complete index before the rebuild or on the
\* complete index after it (the documents do not change here, so the two
\* hold the same postings).
C6_SearchSeesCompleteIndex ==
    /\ sd.pc = "done" =>
          sd.result = search_by_documents(CompleteIndex, query_terms, pagerank, alpha)
    /\ st.pc = "done" =>
          st.result = search_by_terms(CompleteIndex, query_terms, pagerank, alpha)

\* the tokens of a content, none for NULL
TokensOf(content) == IF content = NULL THEN <<>> ELSE tokenize(content)

Occurs(term, content) == \E k \in 1..Len(TokensOf(content)) : TokensOf(content)[k] = term

\* every posting and every term of the index comes from a document as the
\* build read it
NothingStale(d, docs) ==
    /\ \A j \in 1..Len(d.postings) :
          \E k \in 1..Len(d.terms) :
             /\ d.terms[k].id = d.postings[j].term_id
             /\ \E i \in 1..Len(docs) :
                   /\ docs[i].id = d.postings[j].doc_id
                   /\ Occurs(d.terms[k].term, docs[i].content)
    /\ \A k \in 1..Len(d.terms) :
          \E i \in 1..Len(docs) : Occurs(d.terms[k].term, docs[i].content)

\* C7: a build that completes on the documents the completed build before
\* it read leaves the same (term, document, frequency) triples, and after
\* any completed build no posting or term of an earlier build or of earlier
\* contents is left.
C7_RebuildIdempotent ==
    bld.pc = "done" =>
        /\ (hist.completed >= 2 /\ hist.docs = hist.prev_docs)
              => hist.triples = hist.prev_triples
        /\ hist.triples = Triples(committed)
        /\ NothingStale(committed, bld.docs)

\* a second build completed on unchanged documents that have postings, with
\* term ids other than those of the first build
C7_Witness ==
    /\ bld.pc = "done" /\ hist.completed >= 2
    /\ hist.docs = hist.prev_docs
    /\ hist.triples # {}
    /\ \A k \in 1..Len(committed.terms) : committed.terms[k].id > Len(committed.terms)

\* a rebuild completed after a recrawl that took a term out of the documents
C7_WitnessRecrawl ==
    /\ bld.pc = "done" /\ hist.completed >= 2 /\ hist.recrawled
    /\ \E tr \in hist.prev_triples : \A x \in hist.triples : x[1] # tr[1]

\* how often the term is among the tokens of the content
Occurrences(term, content) ==
    Cardinality({k \in 1..Len(TokensOf(content)) : TokensOf(content)[k] = term})

\* the rows of postings of a term text and a document, through the term rows
PostingRows(d, term, doc_id) ==
    {j \in 1..Len(d.postings) :
        /\ d.postings[j].doc_id = doc_id
        /\ \E k \in 1..Len(d.terms) :
              d.terms[k].term = term /\ d.terms[k].id = d.postings[j].term_id}

\* the term texts of the index and of the documents
TermTexts(d, docs) ==
    {d.terms[k].term : k \in 1..Len(d.terms)} \cup
    UNION {{TokensOf(docs[i].content)[k] : k \in 1..Len(TokensOf(docs[i].content))} :
              i \in 1..Len(docs)}

\* C18: after every completed build the index has, for each document the
\* build read and each term, one posting if the term is among the
\* document's lower-cased tokens and none otherwise, with the number of
\* occurrences as frequency; every posting belongs to a term row and a
\* document read; no term text has two rows; a document of empty content
\* has no posting.
C18_OnePostingPerPair ==
    bld.pc = "done" =>
        /\ \A i \in 1..Len(bld.docs), term \in TermTexts(committed, bld.docs) :
              LET rows == PostingRows(committed, term, bld.docs[i].id)
                  n    == Occurrences(term, bld.docs[i].content)
              IN  /\ Cardinality(rows) = IF n > 0 THEN 1 ELSE 0
                  /\ \A j \in rows : committed.postings[j].tf = n
        /\ \A j \in 1..Len(committed.postings) :
              /\ committed.postings[j].tf > 0
              /\ \E k \in 1..Len(committed.terms) :
                    committed.terms[k].id = committed.postings[j].term_id
              /\ \E i \in 1..Len(bld.docs) : bld.docs[i].id = committed.postings[j].doc_id
        /\ \A k, l \in 1..Len(committed.terms) :
              (committed.terms[k].term = committed.terms[l].term
                  \/ committed.terms[k].id = committed.terms[l].id) => k = l
        /\ \A i \in 1..Len(bld.docs) :
              bld.docs[i].content = NoText =>
                  \A j \in 1..Len(committed.postings) :
                     committed.postings[j].doc_id # bld.docs[i].id
        /\ db = committed

\* a second or later build completed on a document of empty content beside
\* a document that holds one term twice and another term once
C18_Witness ==
    /\ bld.pc = "done" /\ hist.completed >= 2
    /\ \E i \in 1..Len(bld.docs) : bld.docs[i].content = NoText
    /\ \E j, k \in 1..Len(committed.postings) :
          /\ committed.postings[j].tf = 2 /\ committed.postings[k].tf = 1
          /\ committed.postings[j].doc_id = committed.postings[k].doc_id

\* C19 (checked under SpecMain): a step of pagerank_mapreduce,
\* pagerank_pregel, search_by_documents or search_by_terms leaves the tables
\* documents, links, terms and postings as they are, and a step of
\* build_inverted_index leaves documents and links as they are.
C19_Frame ==
    [][/\ (mr' # mr \/ pg' # pg \/ sd' # sd \/ st' # st)
            => UNCHANGED <<documents, links, db, committed>>
       /\ (bld' # bld) => UNCHANGED <<documents, links>>]_vars

\* all five functions have run to their end on documents with links: rounds
\* were computed, postings were written, and both searches returned a document
C19_Witness ==
    /\ documents # <<>> /\ links # <<>>
    /\ mr.pc = "done" /\ mr.rounds >= 1 /\ pg.pc = "done" /\ pg.rounds >= 1
    /\ bld.pc = "done" /\ committed.postings # <<>>
    /\ sd.pc = "done" /\ sd.result # <<>>
    /\ st.pc = "done" /\ st.result # <<>>

\* C8: a document whose content is NULL is skipped for that record only:
\* the build ends without raising and every other document has its postings.
C8_MalformedSkipped ==
    (bld.pc \in {"done", "error"}
        /\ \E i \in 1..Len(bld.docs) : bld.docs[i].content = NULL) =>
        /\ bld.pc = "done"
        /\ \A i \in 1..Len(bld.docs) :
              bld.docs[i].content # NULL =>
                 \A k \in 1..Len(Counter(tokenize(bld.docs[i].content), <<>>)) :
                    LET tf == Counter(tokenize(bld.docs[i].content), <<>>)[k]
                    IN  <<tf[1], bld.docs[i].id, tf[2]>> \in Triples(committed)

=============================================================================
